---- MODULE Spec2Model ----
(***************************************************************************)
(* A model of the notes backend (backend/notes): the tables NotesUser,     *)
(* Note, NoteHistory and SharedNote, and the request handlers of views.py  *)
(* with the serializers they call.  Requests are served concurrently, each *)
(* database statement is one step (no handler opens a transaction), so a   *)
(* handler that issues several dependent statements is several actions.    *)
(***************************************************************************)
EXTENDS Naturals, Sequences, FiniteSets

VARIABLES
    users,    \* NotesUser: the set of rows [userslug, email]; the slug is the key
    notes,    \* Note: the rows in the order of their ids
    history,  \* NoteHistory: the rows in the order of their ids
    shared,   \* SharedNote: the rows in the order of their ids
    req,      \* per worker, the request it is serving and how far it has got
    resp,     \* the response the last step sent, NoResponse when it sent none
    calls,    \* per note, the create_note call that made it and the
              \* update_note calls that succeeded on it, in the order they
              \* were answered (kept for the properties, read by no handler)
    tokens,   \* authtoken.Token: the users that have a row (user is
              \* one-to-one), by slug
    sessions  \* django_session: per client, the user its session cookie
              \* is logged in as, NoUser when it has no such session

vars == <<users, notes, history, shared, req, resp, calls, tokens, sessions>>

(***************************************************************************)
(* Bounds of the model.                                                    *)
(***************************************************************************)
\* Rows of Note, NoteHistory and SharedNote together, those that the updates
\* in flight will add included.
MaxRows == 3
\* Entries of a share request's shared_with list.
MaxRecipients == 2

\* Worker processes (threads) serving requests at the same time.
Procs == {1, 2}

\* The values uuid4().hex[:10] is drawn from, cut down to two.
UserSlugs == {"u1", "u2"}
\* The slugs a request may name: those, and one that is never drawn.
AnySlug == UserSlugs \cup {"zz"}
\* The values uuid4().hex[:9] is drawn from, cut down to two.
NoteSlugs == {"n1", "n2"}
Emails == {"a@x.com", "b@x.com"}
\* Request bodies' "content": texts as sequences of characters, one plain,
\* one with a leading blank, one blank.
RawContents == {<<"a">>, <<" ", "b">>, <<" ">>}

\* The clients (browsers, each with its cookie jar) that send requests.
Clients == {"c1", "c2"}
\* request.user of a request that carries no session: AnonymousUser.
NoUser == "none"

Idle == [op |-> "idle"]
NoResponse == [op |-> "none"]

(***************************************************************************)
(* Helpers: queries of the ORM and the fields of rest_framework.           *)
(***************************************************************************)
RECURSIVE LStrip(_)
LStrip(s) == IF s # <<>> /\ Head(s) = " " THEN LStrip(Tail(s)) ELSE s

RECURSIVE RStrip(_)
RStrip(s) ==
    IF s # <<>> /\ s[Len(s)] = " " THEN RStrip(SubSeq(s, 1, Len(s) - 1)) ELSE s

\* serializers.CharField(required=True): to_internal_value strips the text
\* (trim_whitespace defaults to True).
CharField(s) == RStrip(LStrip(s))

\* CharField's validation: allow_blank defaults to False.
CharFieldValid(s) == CharField(s) # <<>>

\* NotesUser.objects.filter(email=value).exists()
EmailExists(email) == \E u \in users : u.email = email

\* NotesUser.objects.filter(userslug=value).exists()
UserExists(slug) == \E u \in users : u.userslug = slug

\* The row of NotesUser whose primary key is slug.
UserRow(slug) == CHOOSE u \in users : u.userslug = slug

\* Note.objects.filter(slug=slug): the ids (positions) of the rows found.
NoteIds(slug) == {i \in 1..Len(notes) : notes[i].slug = slug}

NoteExists(slug) == NoteIds(slug) # {}

NoteId(slug) == CHOOSE i \in NoteIds(slug) : TRUE

\* Updates that have loaded their note and not yet written their history
\* row.
UpdatesInFlight == {p \in Procs : req[p].op = "update"}

Rows == Len(notes) + Len(history) + Len(shared) + Cardinality(UpdatesInFlight)

(***************************************************************************)
(* POST /signup/: UserRegistrationAPIView.create.                          *)
(***************************************************************************)
\* serializer.is_valid(): validate_email queries the table.
Register_validate_email(p, email) ==
    /\ req[p] = Idle
    /\ IF EmailExists(email)
       THEN /\ resp' = [op |-> "register", email |-> email, status |-> 400,
                        error |-> "Email must be unique"]
            /\ UNCHANGED req
       ELSE /\ req' = [req EXCEPT ![p] = [op |-> "register", email |-> email]]
            /\ resp' = NoResponse
    /\ UNCHANGED <<users, notes, history, shared, calls, tokens, sessions>>

\* The unique constraints of NotesUser (email; username, which is the email)
\* as they apply to writing row with the rows in others.
UserUnique(row, others) == \A u \in others : u.email # row.email

\* Model.save() of a row whose primary key is set and has no default: an
\* UPDATE of the row with that key, and an INSERT when there is none.
UserSave(row) ==
    LET same == {u \in users : u.userslug = row.userslug}
    IN  IF same # {} THEN (users \ same) \cup {row} ELSE users \cup {row}

\* perform_create -> create_user -> NotesUser.save(): the slug is drawn,
\* then the row is saved.
Register_create(p) ==
    /\ req[p].op = "register"
    /\ \E slug \in UserSlugs :
         LET row == [userslug |-> slug, email |-> req[p].email]
             others == {u \in users : u.userslug # slug}
         IN  IF UserUnique(row, others)
             THEN /\ users' = UserSave(row)
                  /\ resp' = [op |-> "register", email |-> req[p].email,
                              status |-> 201, userslug |-> slug]
             ELSE /\ users' = users
                  /\ resp' = [op |-> "register", email |-> req[p].email,
                              status |-> 500, error |-> "IntegrityError"]
    /\ req' = [req EXCEPT ![p] = Idle]
    /\ UNCHANGED <<notes, history, shared, calls, tokens, sessions>>

(***************************************************************************)
(* POST /notes/create/: NoteCreateAPIView.create.                          *)
(***************************************************************************)
\* As NewNote, with the modifier left to the first user of the table.
NewNoteModifierUnset(slug, user, content) ==
    [slug |-> slug, created_by_user |-> user,
     last_modified_by_user |-> "u1", content |-> content]

\* Note.objects.create(created_by_user=user, content=content,
\*                     last_modified_by_user=user), with the slug save() drew.
NewNote(slug, user, content) ==
    [slug |-> slug, created_by_user |-> user,
     last_modified_by_user |-> user, content |-> content]

NoteCreate(user_slug, raw) ==
    /\ Rows < MaxRows
    /\ IF ~UserExists(user_slug) \/ ~CharFieldValid(raw)
       THEN /\ resp' = [op |-> "create", user_slug |-> user_slug,
                        content |-> raw, status |-> 400,
                        error |-> "Failed to create Note !"]
            /\ UNCHANGED <<notes, calls>>
       ELSE \E slug \in NoteSlugs :
              IF NoteExists(slug)
              THEN /\ resp' = [op |-> "create", user_slug |-> user_slug,
                               content |-> raw, status |-> 500,
                               error |-> "IntegrityError"]
                   /\ UNCHANGED <<notes, calls>>
              ELSE /\ notes' = Append(notes,
                                 NewNote(slug, user_slug, CharField(raw)))
                   /\ calls' = Append(calls,
                                 [create |-> [user_slug |-> user_slug,
                                              content |-> raw],
                                  updates |-> <<>>])
                   /\ resp' = [op |-> "create", user_slug |-> user_slug,
                               content |-> raw, status |-> 201, slug |-> slug]
    /\ UNCHANGED <<users, history, shared, req, tokens, sessions>>

(***************************************************************************)
(* GET /notes/<slug>/: NoteDetailAPIView.retrieve.                         *)
(***************************************************************************)
\* NoteViewSerializer(instance).data
NoteView(n) ==
    [slug |-> n.slug, content |-> n.content,
     last_modified_by_user |-> n.last_modified_by_user]

NoteDetail_retrieve(slug) ==
    /\ resp' = IF NoteExists(slug)
               THEN [op |-> "retrieve", slug |-> slug, status |-> 200,
                     data |-> NoteView(notes[NoteId(slug)])]
               ELSE [op |-> "retrieve", slug |-> slug, status |-> 404]
    /\ UNCHANGED <<users, notes, history, shared, req, calls, tokens, sessions>>

(***************************************************************************)
(* PUT /notes/<slug>/: NoteDetailAPIView.update, NoteViewSerializer.update.*)
(***************************************************************************)
\* instance = self.get_object(), then serializer.is_valid(): the note is
\* loaded into the request; the body's content is validated.
NoteUpdate_get_object(p, slug, raw, editor) ==
    /\ req[p] = Idle
    /\ Rows < MaxRows
    /\ IF ~NoteExists(slug)
       THEN /\ resp' = [op |-> "update", slug |-> slug, status |-> 404,
                        editor |-> editor, error |-> "Not found."]
            /\ UNCHANGED req
       ELSE IF ~CharFieldValid(raw)
       THEN /\ resp' = [op |-> "update", slug |-> slug, status |-> 400,
                        editor |-> editor,
                        error |-> "This field may not be blank."]
            /\ UNCHANGED req
       ELSE /\ req' = [req EXCEPT ![p] =
                         [op |-> "update", pc |-> "save", id |-> NoteId(slug),
                          loaded |-> notes[NoteId(slug)].content,
                          content |-> CharField(raw), editor |-> editor]]
            /\ resp' = NoResponse
    /\ UNCHANGED <<users, notes, history, shared, calls, tokens, sessions>>

\* As EditorExists, without the query: every slug passes.
EditorExistsUnchecked(slug) == TRUE

\* As EditorExists, for the users that own a note only.
EditorExistsOwnersOnly(slug) ==
    /\ UserExists(slug)
    /\ \E i \in 1..Len(notes) : notes[i].created_by_user = slug

\* modified_user.exists()
EditorExists(slug) == UserExists(slug)

\* As SavedNote, leaving the row alone when the content is the row's.
SavedNoteIfChanged(row, content, editor) ==
    IF content = row.content THEN row
    ELSE [row EXCEPT !.content = content, !.last_modified_by_user = editor]

\* As SavedNote, with the editor written as the creator too.
SavedNoteAsOwner(row, content, editor) ==
    [row EXCEPT !.content = content, !.last_modified_by_user = editor,
                !.created_by_user = editor]

\* instance.content = ...; instance.last_modified_by_user = ...;
\* instance.save(): the row is written from the loaded instance (its slug and
\* created_by_user are those of the row: nothing changes them).
SavedNote(row, content, editor) ==
    [row EXCEPT !.content = content, !.last_modified_by_user = editor]

NoteUpdate_save(p) ==
    /\ req[p].op = "update"
    /\ req[p].pc = "save"
    /\ IF EditorExists(req[p].editor)
       THEN /\ notes' = [notes EXCEPT ![req[p].id] =
                           SavedNote(@, req[p].content, req[p].editor)]
            /\ req' = [req EXCEPT ![p].pc = "history"]
            /\ resp' = NoResponse
       ELSE /\ resp' = [op |-> "update", slug |-> notes[req[p].id].slug,
                        status |-> 400, editor |-> req[p].editor,
                        error |-> "Invalid user slug provided."]
            /\ req' = [req EXCEPT ![p] = Idle]
            /\ UNCHANGED notes
    /\ UNCHANGED <<users, history, shared, calls, tokens, sessions>>

\* As NewHistory, with the first note of the table as the entry's note.
NewHistoryOfFirstNote(r) ==
    [note |-> 1, original_content |-> r.loaded,
     updated_content |-> r.content, updated_by_user |-> r.editor]

\* NoteHistory.objects.create(note=instance, original_content=
\* original_content, updated_content=instance.content, updated_by_user=...):
\* original_content is the content the request loaded.
NewHistory(r) ==
    [note |-> r.id, original_content |-> r.loaded,
     updated_content |-> r.content, updated_by_user |-> r.editor]

\* As NoteHistory_create, keeping one row per note: the note's row is
\* replaced when it has one.
NoteHistory_update_or_create(rows, row) ==
    IF \E k \in 1..Len(rows) : rows[k].note = row.note
    THEN [k \in 1..Len(rows) |->
             IF rows[k].note = row.note THEN row ELSE rows[k]]
    ELSE Append(rows, row)

\* NoteHistory.objects.create(...): an INSERT, the new row gets the next id.
NoteHistory_create(rows, row) == Append(rows, row)

\* The response serializes the request's own instance, not the row.
NoteUpdate_history(p) ==
    /\ req[p].op = "update"
    /\ req[p].pc = "history"
    /\ history' = NoteHistory_create(history, NewHistory(req[p]))
    /\ calls' = [calls EXCEPT ![req[p].id].updates =
                   Append(@, [content |-> req[p].content,
                              editor |-> req[p].editor])]
    /\ resp' = [op |-> "update", slug |-> notes[req[p].id].slug,
                status |-> 200, editor |-> req[p].editor,
                data |-> NoteView(SavedNote(notes[req[p].id], req[p].content,
                                            req[p].editor))]
    /\ req' = [req EXCEPT ![p] = Idle]
    /\ UNCHANGED <<users, notes, shared, tokens, sessions>>

(***************************************************************************)
(* GET /notes/version-history/<slug>/: NoteVersionHistoryAPIView.          *)
(***************************************************************************)
\* NoteHistorySerializer(entry).data, without the time.
HistoryView(h) ==
    [note_slug |-> notes[h.note].slug,
     original_content |-> h.original_content,
     updated_content |-> h.updated_content,
     modified_by |-> UserRow(h.updated_by_user).email]

\* The view's queryset is NoteHistory.objects.all(); the view defines no
\* get_queryset and no filter, so the slug of the URL selects nothing.
HistoryList(slug) == [i \in 1..Len(history) |-> HistoryView(history[i])]

NoteVersionHistory_list(slug) ==
    /\ resp' = [op |-> "history", slug |-> slug, status |-> 200,
                data |-> HistoryList(slug)]
    /\ UNCHANGED <<users, notes, history, shared, req, calls, tokens, sessions>>

(***************************************************************************)
(* POST /notes/share/: SharedNoteAPIView.create, SharedNoteSerializer.     *)
(***************************************************************************)
\* ListField(required=True): any list; here the lists of up to MaxRecipients
\* slugs that name no slug twice.
RECURSIVE SlugLists(_)
SlugLists(n) ==
    IF n = 0 THEN {<<>>}
    ELSE LET shorter == SlugLists(n - 1)
         IN  shorter \cup
             UNION {{Append(l, s) : s \in AnySlug \ {l[i] : i \in 1..Len(l)}} :
                    l \in shorter}

\* As ShareLookups, without the lookup of the sharer.
ShareLookupsNoteOnly(note_slug, shared_by_slug) == NoteExists(note_slug)

\* Note.objects.get(slug=note_slug) and NotesUser.objects.get(userslug=
\* shared_by_slug) both find a row.
ShareLookups(note_slug, shared_by_slug) ==
    NoteExists(note_slug) /\ UserExists(shared_by_slug)

\* As SharedNote_objects_create, keeping one grant per note: the note's
\* grant is replaced when it has one.
SharedNote_objects_update_or_create(rows, row) ==
    IF \E k \in 1..Len(rows) : rows[k].note = row.note
    THEN [k \in 1..Len(rows) |->
             IF rows[k].note = row.note THEN row ELSE rows[k]]
    ELSE Append(rows, row)

\* SharedNote.objects.create(...): an INSERT, the new row gets the next id.
SharedNote_objects_create(rows, row) == Append(rows, row)

\* The two lookups, then SharedNote.objects.create(note=..., shared_by=...).
SharedNote_create(p, note_slug, shared_by_slug, slugs) ==
    /\ req[p] = Idle
    /\ Rows < MaxRows
    /\ IF ShareLookups(note_slug, shared_by_slug)
       THEN /\ shared' = SharedNote_objects_create(shared,
                           [note |-> NoteId(note_slug),
                            shared_by |-> shared_by_slug, shared_with |-> {}])
            /\ req' = [req EXCEPT ![p] =
                         [op |-> "share", grant |-> Len(shared) + 1,
                          note |-> note_slug, shared_by |-> shared_by_slug,
                          slugs |-> slugs, i |-> 1]]
            /\ resp' = NoResponse
       ELSE /\ resp' = [op |-> "share", note |-> note_slug,
                        shared_by |-> shared_by_slug, status |-> 500,
                        error |-> "DoesNotExist"]
            /\ UNCHANGED <<shared, req>>
    /\ UNCHANGED <<users, notes, history, calls, tokens, sessions>>

\* As AddRecipient, without "if user".
AddRecipientUnchecked(with, slug) == with \cup {slug}

\* user = NotesUser.objects.filter(userslug=slug).first(); if user: add.
AddRecipient(with, slug) == IF UserExists(slug) THEN with \cup {slug} ELSE with

\* One round of the loop over shared_with_slugs.
SharedNote_add(p) ==
    /\ req[p].op = "share"
    /\ req[p].i <= Len(req[p].slugs)
    /\ shared' = [shared EXCEPT ![req[p].grant].shared_with =
                    AddRecipient(@, req[p].slugs[req[p].i])]
    /\ req' = [req EXCEPT ![p].i = @ + 1]
    /\ resp' = NoResponse
    /\ UNCHANGED <<users, notes, history, calls, tokens, sessions>>

\* shared_note_instance.save() (it writes the row as it is) and the response.
SharedNote_save(p) ==
    /\ req[p].op = "share"
    /\ req[p].i > Len(req[p].slugs)
    /\ resp' = [op |-> "share", note |-> req[p].note,
                shared_by |-> req[p].shared_by, status |-> 201,
                grant |-> req[p].grant, slugs |-> req[p].slugs]
    /\ req' = [req EXCEPT ![p] = Idle]
    /\ UNCHANGED <<users, notes, history, shared, calls, tokens, sessions>>

(***************************************************************************)
(* POST /login/: UserLoginAPIView.post, UserLoginSerializer.validate.      *)
(***************************************************************************)
\* The passwords of login requests; every user of the model signed up with
\* the first.
Passwords == {"pw", "bad"}

\* authenticate(username=username, password=password): the user whose
\* username (the email) and password these are, NoUser (None) otherwise.
Authenticate(username, password) ==
    IF EmailExists(username) /\ password = "pw"
    THEN (CHOOSE u \in users : u.email = username).userslug
    ELSE NoUser

\* serializer.is_valid(): authenticate, then Token.objects.get_or_create.
UserLogin_validate(p, c, username, password) ==
    /\ req[p] = Idle
    /\ LET user == Authenticate(username, password)
       IN  IF user = NoUser
           THEN /\ resp' = [op |-> "login", client |-> c, status |-> 400,
                            error |->
                              "Unable to login with provided credentials"]
                /\ UNCHANGED <<req, tokens>>
           ELSE /\ tokens' = tokens \cup {user}
                /\ req' = [req EXCEPT ![p] =
                             [op |-> "login", client |-> c, user |-> user]]
                /\ resp' = NoResponse
    /\ UNCHANGED <<users, notes, history, shared, calls, sessions>>

\* login(request, user): the client's session is that user's; the response.
UserLogin_login(p) ==
    /\ req[p].op = "login"
    /\ sessions' = [sessions EXCEPT ![req[p].client] = req[p].user]
    /\ resp' = [op |-> "login", client |-> req[p].client, status |-> 200,
                user_slug |-> req[p].user]
    /\ req' = [req EXCEPT ![p] = Idle]
    /\ UNCHANGED <<users, notes, history, shared, calls, tokens>>

(***************************************************************************)
(* GET /logout/: UserLogoutAPIView.get.                                    *)
(***************************************************************************)
\* IsAuthenticated refuses a request with no user; then
\* hasattr(request.user, 'auth_token') looks the user's token up.  When
\* there is none, get() falls off its end: it returns None, no Response,
\* which the framework answers with an error (500).
UserLogout_get(p, c) ==
    /\ req[p] = Idle
    /\ IF sessions[c] = NoUser
       THEN /\ resp' = [op |-> "logout", client |-> c, user |-> NoUser,
                        status |-> 403]
            /\ UNCHANGED req
       ELSE IF sessions[c] \notin tokens
       THEN /\ resp' = [op |-> "logout", client |-> c, user |-> sessions[c],
                        status |-> 500, error |-> "AssertionError"]
            /\ UNCHANGED req
       ELSE /\ req' = [req EXCEPT ![p] =
                         [op |-> "logout", pc |-> "delete", client |-> c,
                          user |-> sessions[c]]]
            /\ resp' = NoResponse
    /\ UNCHANGED <<users, notes, history, shared, calls, tokens, sessions>>

\* request.user.auth_token.delete()
UserLogout_delete(p) ==
    /\ req[p].op = "logout"
    /\ req[p].pc = "delete"
    /\ tokens' = tokens \ {req[p].user}
    /\ req' = [req EXCEPT ![p].pc = "logout"]
    /\ resp' = NoResponse
    /\ UNCHANGED <<users, notes, history, shared, calls, sessions>>

\* logout(request): the session is flushed; the response.
UserLogout_logout(p) ==
    /\ req[p].op = "logout"
    /\ req[p].pc = "logout"
    /\ sessions' = [sessions EXCEPT ![req[p].client] = NoUser]
    /\ resp' = [op |-> "logout", client |-> req[p].client,
                user |-> req[p].user, status |-> 200]
    /\ req' = [req EXCEPT ![p] = Idle]
    /\ UNCHANGED <<users, notes, history, shared, calls, tokens>>

(***************************************************************************)
(* The specifications.  The tables are coupled only through the keys they  *)
(* look up, so each part of the service is explored on its own: the        *)
(* registry of users from the empty database, the notes with their ledger  *)
(* and the shares of notes from a database that holds two users.           *)
(***************************************************************************)
\* The database after migration: no rows.
InitEmpty ==
    /\ users = {}
    /\ notes = <<>>
    /\ history = <<>>
    /\ shared = <<>>
    /\ req = [p \in Procs |-> Idle]
    /\ resp = NoResponse
    /\ calls = <<>>
    /\ tokens = {}
    /\ sessions = [c \in Clients |-> NoUser]

\* Two users have signed up.
TwoUsers ==
    {[userslug |-> "u1", email |-> "a@x.com"],
     [userslug |-> "u2", email |-> "b@x.com"]}

Init ==
    /\ users = TwoUsers
    /\ notes = <<>>
    /\ history = <<>>
    /\ shared = <<>>
    /\ req = [p \in Procs |-> Idle]
    /\ resp = NoResponse
    /\ calls = <<>>
    /\ tokens = {}
    /\ sessions = [c \in Clients |-> NoUser]

NextIdentity ==
    \/ \E p \in Procs, email \in Emails : Register_validate_email(p, email)
    \/ \E p \in Procs : Register_create(p)

Next ==
    \/ \E user_slug \in AnySlug, raw \in RawContents :
         NoteCreate(user_slug, raw)
    \/ \E slug \in NoteSlugs : NoteDetail_retrieve(slug)
    \/ \E p \in Procs, slug \in NoteSlugs, raw \in RawContents,
          editor \in AnySlug : NoteUpdate_get_object(p, slug, raw, editor)
    \/ \E p \in Procs : NoteUpdate_save(p)
    \/ \E p \in Procs : NoteUpdate_history(p)
    \/ \E slug \in NoteSlugs : NoteVersionHistory_list(slug)

\* Two users have signed up and the first has created a note.
InitShare ==
    /\ users = TwoUsers
    /\ notes = <<NewNote("n1", "u1", <<"a">>)>>
    /\ history = <<>>
    /\ shared = <<>>
    /\ req = [p \in Procs |-> Idle]
    /\ resp = NoResponse
    /\ calls = <<[create |-> [user_slug |-> "u1", content |-> <<"a">>],
                  updates |-> <<>>]>>
    /\ tokens = {}
    /\ sessions = [c \in Clients |-> NoUser]

NextShare ==
    \/ \E p \in Procs, note_slug \in NoteSlugs, shared_by_slug \in AnySlug,
          slugs \in SlugLists(MaxRecipients) :
         SharedNote_create(p, note_slug, shared_by_slug, slugs)
    \/ \E p \in Procs : SharedNote_add(p)
    \/ \E p \in Procs : SharedNote_save(p)

\* The notes and their ledger.
Spec == Init /\ [][Next]_vars

\* The sharing of notes.
SpecShare == InitShare /\ [][NextShare]_vars

\* The registry of users.
SpecIdentity == InitEmpty /\ [][NextIdentity]_vars

\* One user has signed up.
OneUser == {[userslug |-> "u1", email |-> "a@x.com"]}

InitAll ==
    /\ users = OneUser
    /\ notes = <<>>
    /\ history = <<>>
    /\ shared = <<>>
    /\ req = [p \in Procs |-> Idle]
    /\ resp = NoResponse
    /\ calls = <<>>
    /\ tokens = {}
    /\ sessions = [c \in Clients |-> NoUser]

\* Every operation on the tables together: worker 1 serves the requests of
\* several statements, one at a time, while the requests of one statement
\* arrive between its statements; share lists have one entry at most.
NextAll ==
    \/ \E email \in Emails : Register_validate_email(1, email)
    \/ Register_create(1)
    \/ \E user_slug \in AnySlug, raw \in RawContents :
         NoteCreate(user_slug, raw)
    \/ \E slug \in NoteSlugs : NoteDetail_retrieve(slug)
    \/ \E slug \in NoteSlugs, raw \in RawContents, editor \in AnySlug :
         NoteUpdate_get_object(1, slug, raw, editor)
    \/ NoteUpdate_save(1)
    \/ NoteUpdate_history(1)
    \/ \E slug \in NoteSlugs : NoteVersionHistory_list(slug)
    \/ \E note_slug \in NoteSlugs, shared_by_slug \in AnySlug,
          slugs \in SlugLists(1) :
         SharedNote_create(1, note_slug, shared_by_slug, slugs)
    \/ SharedNote_add(1)
    \/ SharedNote_save(1)

\* The registry, the notes, the ledger and the shares in one database.
SpecAll == InitAll /\ [][NextAll]_vars

\* Logins and logouts of the two users from two clients, one request after
\* the other.
NextAuth ==
    \/ \E c \in Clients, username \in Emails, password \in Passwords :
         UserLogin_validate(1, c, username, password)
    \/ UserLogin_login(1)
    \/ \E c \in Clients : UserLogout_get(1, c)
    \/ UserLogout_delete(1)
    \/ UserLogout_logout(1)

\* The sessions and tokens of the users.
SpecAuth == Init /\ [][NextAuth]_vars
(***************************************************************************)
(* The properties.                                                         *)
(***************************************************************************)
\* The ledger of the note with id i: its rows of NoteHistory, oldest first.
Ledger(i) == SelectSeq(history, LAMBDA h : h.note = i)

Chained(l) ==
    \A k \in 1..(Len(l) - 1) : l[k].updated_content = l[k + 1].original_content

NoRequestInFlight == \A p \in Procs : req[p] = Idle

\* The slugs that are keys of NotesUser.
Registered == {u.userslug : u \in users}

\* The grants whose share request is still adding recipients.
GrantsInFlight == {req[p].grant : p \in {q \in Procs : req[q].op = "share"}}

\* C1: after N successful update_note calls on a note, history(note_slug)
\* returns exactly N entries, in the order of the calls, each entry's
\* updated_content being the next entry's original_content.
C1_HistoryIsTheNotesUpdates ==
    (resp.op = "history" /\ NoteExists(resp.slug)) =>
        LET h == resp.data
            made == calls[NoteId(resp.slug)].updates
        IN  /\ Len(h) = Len(made)
            /\ \A k \in 1..Len(h) :
                 /\ h[k].updated_content = made[k].content
                 /\ h[k].modified_by = UserRow(made[k].editor).email
            /\ Chained(h)

\* C2: no interleaving of two update_note requests on one note leaves the
\* note's ledger with an entry whose updated_content differs from the next
\* entry's original_content.
C2_LedgerChain == \A i \in 1..Len(notes) : Chained(Ledger(i))

\* C3: in every state each note's content is the updated_content of its most
\* recent ledger entry, or the content given at creation (as stored: without
\* the surrounding blanks) when it has no entry.
C3_ContentIsLatestEntry ==
    \A i \in 1..Len(notes) :
        LET l == Ledger(i)
        IN  notes[i].content =
                IF l = <<>> THEN CharField(calls[i].create.content)
                ELSE l[Len(l)].updated_content

\* The statement of C3 in the states where no request is being served: it
\* fails there too, after two interleaved updates of one note.
C3_AtRest == NoRequestInFlight => C3_ContentIsLatestEntry

\* A step of an update whose editor is no user: it changes no note and no
\* ledger, ends the request and answers 400.
C4_UnknownEditorStep ==
    \A p \in Procs :
        (/\ req[p].op = "update"
         /\ req[p].editor \notin Registered
         /\ req'[p] # req[p])
        => /\ notes' = notes
           /\ history' = history
           /\ req'[p] = Idle
           /\ resp'.op = "update"
           /\ resp'.status = 400
           /\ resp'.editor = req[p].editor

\* C4: update_note with an editor slug that resolves to no user reports a
\* failure, leaves the note's content and last_modified_by unchanged and
\* appends no ledger entry: no update is answered 200 for an editor that is
\* no user, and the step that ends such a request answers 400 and changes
\* neither a note nor the ledger.
C4_UnknownEditorFails ==
    /\ [](resp.op = "update" /\ resp.status = 200
            => resp.editor \in Registered)
    /\ [][C4_UnknownEditorStep]_vars

\* C4's case: an update of a note that exists was refused for its editor.
C4_Witness ==
    /\ resp.op = "update"
    /\ resp.status = 400
    /\ resp.error = "Invalid user slug provided."
    /\ resp.editor \notin Registered
    /\ NoteExists(resp.slug)

\* C5 as the specification states it: right after create_note, get_note
\* finds a note with the content of the request, the owner as creator and
\* as last modifier, and no ledger entry; a create_note whose owner is no
\* user fails.
C5_CreateThenGet ==
    /\ (resp.op = "create" /\ resp.status = 201) =>
           LET i == NoteId(resp.slug)
           IN  /\ NoteView(notes[i]).content = resp.content
               /\ notes[i].created_by_user = resp.user_slug
               /\ notes[i].last_modified_by_user = resp.user_slug
               /\ Ledger(i) = <<>>
    /\ (resp.op = "create" /\ resp.user_slug \notin Registered) =>
           resp.status # 201

\* The state right after a create_note that succeeded.
C5_Created ==
    (resp.op = "create" /\ resp.status = 201) =>
        /\ NoteExists(resp.slug)
        /\ LET i == NoteId(resp.slug)
           IN  /\ i = Len(notes)
               /\ NoteView(notes[i]).slug = resp.slug
               /\ NoteView(notes[i]).content = RStrip(LStrip(resp.content))
               /\ NoteView(notes[i]).last_modified_by_user = resp.user_slug
               /\ notes[i].created_by_user = resp.user_slug
               /\ resp.user_slug \in Registered
               /\ RStrip(LStrip(resp.content)) # <<>>
               /\ Ledger(i) = <<>>

\* A create_note whose owner is no user, or whose content is blank.
C5_Rejected ==
    (/\ resp'.op = "create"
     /\ \/ resp'.user_slug \notin Registered
        \/ RStrip(LStrip(resp'.content)) = <<>>)
    => (resp'.status = 400 /\ notes' = notes)

\* C5, amended: a create_note that succeeds is followed by a get_note that
\* finds the note, with the content of the request without its leading and
\* trailing blanks, the owner as creator and as last modifier, and no ledger
\* entry; a create_note whose owner is no user, or whose content is blank,
\* answers 400 and adds no note.
C5_CreateThenGetStripped == []C5_Created /\ [][C5_Rejected]_vars

\* C5's case: a note was created from a content with a leading blank.
C5_Witness ==
    /\ resp.op = "create"
    /\ resp.status = 201
    /\ resp.content = <<" ", "b">>
    /\ notes[NoteId(resp.slug)].content = <<"b">>

\* C6: the recipient set of the grant a share call made is exactly the set
\* of the users that the entries of its list resolve to: the entries that
\* resolve to no user are skipped and the call succeeds.
C6_RecipientsAreTheResolved ==
    (resp.op = "share" /\ resp.status = 201) =>
        shared[resp.grant].shared_with =
            {resp.slugs[i] : i \in 1..Len(resp.slugs)} \cap Registered

\* C6's case: a share was answered whose list names a user and a slug that
\* is no user's.
C6_Witness ==
    /\ resp.op = "share"
    /\ resp.status = 201
    /\ \E i, j \in 1..Len(resp.slugs) :
         /\ resp.slugs[i] \in Registered
         /\ resp.slugs[j] \notin Registered
    /\ Cardinality(shared[resp.grant].shared_with) = 1

\* The step that answers a share whose note or sharer does not resolve.
C7_UnresolvedStep ==
    (/\ resp'.op = "share"
     /\ \/ ~NoteExists(resp'.note)
        \/ resp'.shared_by \notin Registered)
    => (resp'.status = 500 /\ shared' = shared /\ req' = req)

\* Every grant names a note and a sharer that exist.
C7_GrantsResolve ==
    \A g \in 1..Len(shared) :
        /\ shared[g].note \in 1..Len(notes)
        /\ shared[g].shared_by \in Registered

\* C7: a share whose note_slug is the slug of no note, or whose sharer_slug
\* is the slug of no user, fails, and adds no grant and no recipient: its
\* only step answers with the error and leaves SharedNote as it was, and
\* every grant there is names a note and a sharer that exist.
C7_UnresolvedShareAborts == []C7_GrantsResolve /\ [][C7_UnresolvedStep]_vars

\* C7's case: a share of a note that exists was refused for its sharer.
C7_Witness ==
    /\ resp.op = "share"
    /\ resp.status = 500
    /\ NoteExists(resp.note)
    /\ resp.shared_by \notin Registered

\* C8: every grant whose share operation has completed has a recipient.
C8_GrantsHaveRecipients ==
    \A g \in 1..Len(shared) :
        g \notin GrantsInFlight => shared[g].shared_with # {}

\* C9: no two users have the same email, and a register call that creates
\* no user, however its check and its insert interleave with another's,
\* reports DuplicateEmail (the 400 of validate_email).
C9_DuplicateEmailReported ==
    /\ \A u, v \in users : u.email = v.email => u = v
    /\ (resp.op = "register" /\ resp.status # 201) =>
           (resp.status = 400 /\ resp.error = "Email must be unique")

\* The part of C9 that holds: no two users have the same email.
C9_EmailsUnique == \A u, v \in users : u.email = v.email => u = v

\* C10: a user's slug is never reassigned: every user there is stays, with
\* the same slug and the same email, whatever is registered next.
C10_UsersStay == [][\A u \in users : u \in users']_vars

\* C11: history called with a slug that is the slug of no note fails with
\* NotFound (404); it does not answer with a list of entries.
C11_UnknownSlugNotFound ==
    (resp.op = "history" /\ ~NoteExists(resp.slug)) => resp.status = 404

\* The recipients a share request that is being served ends up adding.
ShareAdds(r) == {r.slugs[i] : i \in 1..Len(r.slugs)} \cap Registered

\* C12: the grant of a share and its recipients appear as one unit: no state
\* a reader may see holds a grant of a share still being served whose
\* recipient set is a strict subset of the set the share ends up adding.
C12_GrantAppearsWhole ==
    \A p \in Procs :
        req[p].op = "share" =>
            ~(/\ shared[req[p].grant].shared_with \subseteq ShareAdds(req[p])
              /\ shared[req[p].grant].shared_with # ShareAdds(req[p]))

\* The users a grant of the note with id i names as recipients.
Recipients(i) ==
    UNION {shared[g].shared_with : g \in {h \in 1..Len(shared) : shared[h].note = i}}

\* The statement that writes the note, in an update whose editor is a user:
\* it writes the request's content and the editor, whoever the editor is.
C13_SaveStep ==
    \A p \in Procs :
        (/\ req[p].op = "update"
         /\ req[p].pc = "save"
         /\ req[p].editor \in Registered
         /\ req'[p] # req[p])
        => /\ req'[p] = [req[p] EXCEPT !.pc = "history"]
           /\ notes'[req[p].id].content = req[p].content
           /\ notes'[req[p].id].last_modified_by_user = req[p].editor

\* The statement that writes the ledger: the entry names the editor, and the
\* request is answered 200.
C13_HistoryStep ==
    \A p \in Procs :
        (/\ req[p].op = "update"
         /\ req[p].pc = "history"
         /\ req'[p] # req[p])
        => /\ Len(history') = Len(history) + 1
           /\ history'[Len(history')].note = req[p].id
           /\ history'[Len(history')].updated_by_user = req[p].editor
           /\ resp'.op = "update"
           /\ resp'.status = 200
           /\ resp'.editor = req[p].editor

\* An update whose editor is a user is refused only for the note (there is
\* none of that slug) or for the content (it is blank), never for the editor.
C13_NotRefused ==
    (resp.op = "update" /\ resp.editor \in Registered /\ resp.status # 200)
        => resp.error \in {"Not found.", "This field may not be blank."}

\* C13: update_note checks no right of the editor on the note: an update of
\* an existing note by any existing user, the note's creator or not, a
\* recipient of a grant of it or not, writes the content, records the user
\* as last_modified_by and as the editor of the ledger entry, and succeeds.
C13_NoAuthorization ==
    []C13_NotRefused /\ [][C13_SaveStep /\ C13_HistoryStep]_vars

\* C13's case: an update succeeded whose editor is neither the creator of
\* the note nor a recipient of a grant of it.
C13_Witness ==
    /\ resp.op = "update"
    /\ resp.status = 200
    /\ LET i == NoteId(resp.slug)
       IN  /\ resp.editor # notes[i].created_by_user
           /\ resp.editor \notin Recipients(i)
           /\ notes[i].last_modified_by_user = resp.editor
           /\ history[Len(history)].note = i
           /\ history[Len(history)].updated_by_user = resp.editor

\* The steps of an update whose content is the content it found in the note.
C14_NoOpStep ==
    \A p \in Procs :
        (/\ req[p].op = "update"
         /\ req[p].content = req[p].loaded
         /\ req[p].editor \in Registered
         /\ req'[p] # req[p])
        => IF req[p].pc = "save"
           THEN /\ req'[p] = [req[p] EXCEPT !.pc = "history"]
                /\ notes'[req[p].id].last_modified_by_user = req[p].editor
                /\ notes'[req[p].id].content = req[p].content
           ELSE /\ history' =
                     Append(history,
                            [note |-> req[p].id,
                             original_content |-> req[p].content,
                             updated_content |-> req[p].content,
                             updated_by_user |-> req[p].editor])
                /\ resp'.op = "update"
                /\ resp'.status = 200

\* C14: an update_note whose new content is the content the note has (the
\* content the call read from it) is no special case: it sets
\* last_modified_by to the editor and appends exactly one ledger entry, whose
\* original_content equals its updated_content.
C14_NoOpStillRecorded == [][C14_NoOpStep]_vars

\* C14's case: the ledger's last entry is that of such an update, by an
\* editor who was not the last modifier.
C14_Witness ==
    /\ resp.op = "update"
    /\ resp.status = 200
    /\ history # <<>>
    /\ history[Len(history)].original_content =
           history[Len(history)].updated_content
    /\ history[Len(history)].updated_by_user = resp.editor
    /\ resp.editor # calls[history[Len(history)].note].create.user_slug
    /\ Len(calls[history[Len(history)].note].updates) = 1

\* C15: when no update is in progress, each note's last_modified_by is the
\* editor of the note's most recent ledger entry, or the note's creator when
\* the note has no ledger entry.
C15_ModifierIsLatestEditor ==
    (UpdatesInFlight = {}) =>
        \A i \in 1..Len(notes) :
            LET l == Ledger(i)
            IN  notes[i].last_modified_by_user =
                    IF l = <<>> THEN notes[i].created_by_user
                    ELSE l[Len(l)].updated_by_user

\* No step removes a note or changes the created_by of one.
C16_CreatorStep ==
    /\ Len(notes') >= Len(notes)
    /\ \A i \in 1..Len(notes) :
         notes'[i].created_by_user = notes[i].created_by_user

\* C16: a note's created_by is the owner given to the create_note that made
\* it, in every state, and no step of an update, a share or any other
\* operation changes it.
C16_CreatorKept ==
    /\ [](\A i \in 1..Len(notes) :
            notes[i].created_by_user = calls[i].create.user_slug)
    /\ [][C16_CreatorStep]_vars

\* C16's case: a note that was updated by a user other than its creator and
\* then shared has its creator still.
C16_Witness ==
    \E i \in 1..Len(notes) :
        /\ Ledger(i) # <<>>
        /\ notes[i].last_modified_by_user # notes[i].created_by_user
        /\ \E g \in 1..Len(shared) :
             shared[g].note = i /\ shared[g].shared_with # {}
        /\ notes[i].created_by_user = calls[i].create.user_slug

\* The ledger of the note with id i in the table rows.
LedgerIn(rows, i) == SelectSeq(rows, LAMBDA h : h.note = i)

\* C17: the ledger is append-only: across every step, each note's ledger has
\* the ledger it had before as a prefix, entry by entry (original_content,
\* updated_content and editor unchanged).
C17_LedgerAppendOnly ==
    [][\A i \in 1..Len(notes) :
          LET old == LedgerIn(history, i)
              new == LedgerIn(history', i)
          IN  /\ Len(new) >= Len(old)
              /\ SubSeq(new, 1, Len(old)) = old]_vars

\* C17's case: a note's ledger has got its second entry, which differs from
\* the first.
C17_Witness ==
    /\ resp.op = "update"
    /\ resp.status = 200
    /\ \E i \in 1..Len(notes) :
         /\ Len(Ledger(i)) = 2
         /\ Ledger(i)[1] # Ledger(i)[2]

\* The ledger changes only in the step that answers an update with 200, by
\* one entry, of the note of that update.
C18_OnlyBySuccessfulUpdate ==
    /\ history' # history =>
         \E p \in Procs :
             /\ req[p].op = "update"
             /\ req[p].pc = "history"
             /\ req'[p] = Idle
             /\ resp'.op = "update"
             /\ resp'.status = 200
             /\ Len(history') = Len(history) + 1
             /\ SubSeq(history', 1, Len(history)) = history
             /\ history'[Len(history')].note = req[p].id
    /\ (resp'.op = "update" /\ resp'.status = 200) =>
         Len(history') = Len(history) + 1

\* The answers of register, create_note, get_note, history and share, and
\* those of an update_note that failed, come with no change of the ledger.
C18_OthersLeaveLedger ==
    (\/ resp'.op \in {"register", "create", "retrieve", "history", "share"}
     \/ (resp'.op = "update" /\ resp'.status # 200))
    => history' = history

\* The steps of an update leave the other notes and their ledgers alone.
C18_OtherNotesKept ==
    \A p \in Procs :
        (req[p].op = "update" /\ req'[p] # req[p]) =>
            \A i \in 1..Len(notes) :
                i # req[p].id =>
                    /\ notes'[i] = notes[i]
                    /\ LedgerIn(history', i) = LedgerIn(history, i)

\* C18: ledger entries are made by the update_note calls that succeed, one
\* per call: register, create_note, get_note, history, share and a failed
\* update_note leave every ledger unchanged, and an update_note leaves the
\* content and the ledger of every other note unchanged.
C18_LedgerFrame ==
    [][/\ C18_OnlyBySuccessfulUpdate
       /\ C18_OthersLeaveLedger
       /\ C18_OtherNotesKept]_vars

\* C18's case: of two notes one was updated, and the other has its content
\* and its empty ledger still.
C18_Witness ==
    /\ resp.op = "update"
    /\ resp.status = 200
    /\ Len(notes) = 2
    /\ \E i \in 1..2 :
         /\ notes[i].slug # resp.slug
         /\ Ledger(i) = <<>>
         /\ notes[i].content = CharField(calls[i].create.content)
    /\ Len(Ledger(NoteId(resp.slug))) = 1

\* The steps of a share: the one that begins it adds one grant, at the end
\* of the table, and every step leaves the grants of the other calls as they
\* are; a grant's note and sharer never change, and its recipients are never
\* taken away.
C19_ShareStep ==
    /\ Len(shared') >= Len(shared)
    /\ \A g \in 1..Len(shared) :
         /\ shared'[g].note = shared[g].note
         /\ shared'[g].shared_by = shared[g].shared_by
         /\ shared[g].shared_with \subseteq shared'[g].shared_with
         /\ g \notin GrantsInFlight => shared'[g] = shared[g]
    /\ \A p \in Procs :
         /\ (req[p].op = "share" /\ req'[p] # req[p]) =>
                \A g \in 1..Len(shared) :
                    g # req[p].grant => shared'[g] = shared[g]
         /\ (req[p] = Idle /\ req'[p] # Idle) =>
                /\ Len(shared') = Len(shared) + 1
                /\ req'[p].grant = Len(shared')

\* The grant of a share that was answered 201 is a grant of the note and the
\* sharer of the call; two calls being served have two grants.
C19_OwnGrant ==
    /\ (resp.op = "share" /\ resp.status = 201) =>
           /\ resp.grant \in 1..Len(shared)
           /\ notes[shared[resp.grant].note].slug = resp.note
           /\ shared[resp.grant].shared_by = resp.shared_by
    /\ \A p, q \in Procs :
           (req[p].op = "share" /\ req[q].op = "share" /\ p # q) =>
               req[p].grant # req[q].grant

\* C19: sharing a note again overwrites no grant: every share call that
\* succeeds adds one new grant and leaves the note, the sharer and the
\* recipients of every grant there was unchanged, so the number of grants of
\* a note never decreases.
C19_ResharingAddsGrants == []C19_OwnGrant /\ [][C19_ShareStep]_vars

\* C19's case: a note was shared a second time, with other recipients, and
\* both grants are there.
C19_Witness ==
    /\ resp.op = "share"
    /\ resp.status = 201
    /\ resp.grant = 2
    /\ GrantsInFlight = {}
    /\ shared[1].note = shared[2].note
    /\ shared[1].shared_with # {}
    /\ shared[2].shared_with # {}
    /\ shared[1].shared_with # shared[2].shared_with

\* C20: every logout request of an authenticated user, after any logins and
\* logouts of that user (also from a second session, when the user's token
\* was revoked by the logout of the first), is answered with success, ends
\* the session and leaves the user without a token.
C20_LogoutSucceeds ==
    (resp.op = "logout" /\ resp.user # NoUser) =>
        /\ resp.status = 200
        /\ sessions[resp.client] = NoUser
        /\ resp.user \notin tokens
====
